---- MODULE Spec2Model ----
(***************************************************************************)
(* voiceflow: the useVoiceTranscription hook (the transcript reconciler),  *)
(* the two recognition backends it drives (BrowserVoiceInputService on the *)
(* native speech recognizer, OpenAIVoiceInputService on chunked uploads)   *)
(* and the host platform's events, as one state machine.                   *)
(*                                                                         *)
(* Text is a sequence of one-character strings.  Everything runs on one    *)
(* JavaScript thread: an action is one task (an event handler or a timer)  *)
(* together with the promise continuations it makes runnable; an await on  *)
(* a promise the platform settles later ends the action.                   *)
(***************************************************************************)
EXTENDS Integers, Sequences, FiniteSets, TLC

\* ---------------------------------------------------------------- bounds
MaxServices == 2   \* startRecording calls of the hook, one backend instance each
MaxText     == 2   \* native results finalized in one on-device session
MaxResults  == 2   \* results from resultIndex onward in one native result event
MaxStops    == 1   \* stopRecording calls of the hook awaiting the backend at once
MaxChunks   == 2   \* chunks the media recorder emits in one cloud session

\* ------------------------------------------------------ program constants
maxRestarts == 10      \* BrowserVoiceInputService.maxRestarts
MinChunkSize == 10000  \* transcribeAudio: minimum blob size

Services == 1 .. MaxServices
NoService == 0

\* ------------------------------------------------------------------ text
Empty == << >>
Transcripts == { <<"a">>, <<" ", "b">> }

StartsWith(t, p) == Len(p) <= Len(t) /\ SubSeq(t, 1, Len(p)) = p
Slice(t, n) == SubSeq(t, n + 1, Len(t))
EndsWithSpace(t) == Len(t) > 0 /\ t[Len(t)] = " "
StartsWithSpace(t) == Len(t) > 0 /\ t[1] = " "

RECURSIVE TrimStart(_)
TrimStart(t) == IF StartsWithSpace(t) THEN TrimStart(Tail(t)) ELSE t
RECURSIVE TrimEnd(_)
TrimEnd(t) == IF EndsWithSpace(t) THEN TrimEnd(SubSeq(t, 1, Len(t) - 1)) ELSE t
Trim(t) == TrimEnd(TrimStart(t))

VARIABLES
  \* the platform and the consumer's options, fixed for a run
  hookVersion,              \* "A": useVoiceTranscription.ts, "B": unnamed/part_001
  emitMode,                 \* options.emitMode
  baselineText,             \* what options.getBaselineText returns
  hasSpeechRecognition,     \* 'webkitSpeechRecognition' in window || 'SpeechRecognition' in window
  hasApiKey,                \* !!import.meta.env.VITE_OPENAI_API_KEY
  \* the hook's language state and what a language selector shows for a code
  language, shown,
  \* the visualization polling: whether options.onVisualizationUpdate is
  \* given, the polling loops (by the startRecording call that began them)
  \* with a requestAnimationFrame callback pending, the loop whose frame
  \* animationFrameRef holds, and whether the component is mounted
  onVisualizationUpdate, frames, animationFrameRef, mounted,
  \* the hook
  isRecording, transcription, interimTranscription, error, permissionDenied,
  voiceServiceRef, isCancelledRef, processedRef, transcriptionHistoryRef,
  startCall,                \* per startRecording call: where it is suspended
  stopCalls,                \* stopRecording calls suspended in await service.stopRecording
  \* the backend instances, by the startRecording call that constructs them
  svc,
  \* what the consumer and the platform observe (no effect on the program)
  obs,
  \* the presentation shell (TextareaWithVoice) when it is the hook's consumer
  shell

config == << hookVersion, emitMode, baselineText, hasSpeechRecognition, hasApiKey >>
hookState == << isRecording, transcription, interimTranscription, error,
                permissionDenied, voiceServiceRef, isCancelledRef, processedRef,
                transcriptionHistoryRef >>
languageState == << language, shown >>
visualState == << onVisualizationUpdate, frames, animationFrameRef, mounted >>
vars == << config, languageState, visualState, hookState, startCall, stopCalls, svc, obs,
          shell >>

\* ------------------------------------------------- the hook's callback
\* The refs and state the transcription callback reads and writes, with the
\* onTranscriptionUpdate invocations it has made, oldest first.
HookText == [ transcription |-> transcription,
              interimTranscription |-> interimTranscription,
              processedRef |-> processedRef,
              transcriptionHistoryRef |-> transcriptionHistoryRef,
              emitted |-> << >> ]

Emit(h, text, isFinal) == [h EXCEPT !.emitted = Append(@, << text, isFinal >>)]

DeltaOf_DropsDiverged(newText, prev) ==
  IF StartsWith(newText, prev) THEN Slice(newText, Len(prev)) ELSE Empty

\* newText.startsWith(prev) ? newText.slice(prev.length) : newText
DeltaOf(newText, prev) ==
  IF StartsWith(newText, prev) THEN Slice(newText, Len(prev)) ELSE newText

\* useVoiceTranscription.ts: the body of the callback after the cancellation check
CallbackA(h, text, isFinal) ==
  LET prev  == h.processedRef
      delta == IF emitMode = "delta" THEN DeltaOf(text, prev) ELSE text
      h1 == IF isFinal
              THEN [h EXCEPT !.transcription = text, !.interimTranscription = Empty]
              ELSE [h EXCEPT !.interimTranscription = text]
      h2 == IF delta # Empty THEN Emit(h1, delta, isFinal) ELSE h1
  IN  [h2 EXCEPT !.processedRef = IF emitMode = "delta" THEN text ELSE @]

Separator_Always(currentFullText, text) ==
  IF Len(currentFullText) > 0 THEN << " " >> ELSE Empty

\* part_001: currentFullText.length > 0 && !endsWith(' ') && !text.startsWith(' ') ? ' ' : ''
Separator(currentFullText, text) ==
  IF Len(currentFullText) > 0 /\ ~EndsWithSpace(currentFullText) /\ ~StartsWithSpace(text)
    THEN << " " >> ELSE Empty

\* part_001: the body of the callback after the cancellation check
CallbackB(h, text, isFinal) ==
  LET currentFullText   == h.transcriptionHistoryRef
      separator         == Separator(currentFullText, text)
      effectiveFullText == currentFullText \o separator \o text
      textToEmit == IF emitMode = "segment" THEN separator \o text ELSE effectiveFullText
      delta == IF emitMode = "delta" THEN DeltaOf(textToEmit, h.processedRef) ELSE textToEmit
      h1 == IF isFinal
              THEN [h EXCEPT !.transcriptionHistoryRef = @ \o separator \o text,
                             !.transcription = h.transcriptionHistoryRef \o separator \o text,
                             !.interimTranscription = Empty]
              ELSE [h EXCEPT !.interimTranscription = text]
      h2 == IF emitMode = "segment" THEN Emit(h1, textToEmit, isFinal)
            ELSE IF delta # Empty THEN Emit(h1, delta, isFinal)
            ELSE h1
  IN  IF isFinal
        THEN [h2 EXCEPT !.processedRef = IF emitMode = "segment" THEN Empty ELSE textToEmit]
        ELSE [h2 EXCEPT !.processedRef = IF emitMode = "delta" THEN textToEmit ELSE @]

CancellationCheck_Skipped(cancelledFlag) == FALSE

\* if (isCancelledRef.current) return
CancellationCheck(cancelledFlag) == cancelledFlag

\* The callback startRecording hands to the backend.
TranscriptionCallback(h, text, isFinal) ==
  IF CancellationCheck(isCancelledRef) THEN h
  ELSE IF hookVersion = "A" THEN CallbackA(h, text, isFinal)
  ELSE CallbackB(h, text, isFinal)

\* ------------------------------------------------- the backend instances
\* Why a restart timer was set: by onerror, by onend, or by the onend that
\* follows an 'aborted' error.
Causes == { "error", "end", "end-after-abort" }
NoTimers == [c \in Causes |-> 0]

\* Discarded native recognizers (createFreshRecognition replaced them) whose
\* handlers stay attached and which still owe the platform's end event.
OldStates == { "stopping", "errored", "aborted" }
NoOld == [st \in OldStates |-> 0]

BagSize(b) ==
  LET RECURSIVE Sum(_)
      Sum(D) == IF D = {} THEN 0
                ELSE LET d == CHOOSE x \in D : TRUE IN b[d] + Sum(D \ {d})
  IN  Sum(DOMAIN b)

\* finalsAtRestart before the session's first createFreshRecognition
NoRestart == -1

\* A slot no startRecording call has filled yet.
NoInstance ==
  [ kind |-> "none", isCurrentlyRecording |-> FALSE,
    audioStream |-> FALSE, audioContext |-> "none",
    \* BrowserVoiceInputService
    recognition |-> "none", old |-> NoOld, fullTranscript |-> Empty,
    restartCount |-> 0, timers |-> NoTimers,
    \* OpenAIVoiceInputService
    mediaRecorder |-> "none", finalChunkDue |-> FALSE, chunkCounter |-> 0,
    processedTranscriptions |-> {}, finalTranscription |-> Empty, inflight |-> 0,
    language |-> "auto",
    \* observation only
    freshCount |-> 0, finalized |-> << >>, callbacks |-> << >>,
    finalsAtRestart |-> NoRestart,
    \* dataavailable events of the session so far, and which of them (by
    \* their number) had their chunk submitted to the transcription API
    chunksEmitted |-> 0, firstNonEmpty |-> 0, requests |-> << >>,
    \* requests of the session that failed (network error or non-2xx status)
    failedRequests |-> 0,
    \* whether stopRecording was called on the instance
    stopped |-> FALSE ]

\* new BrowserVoiceInputService(): initializeRecognition constructs the native object
NewBrowserService == [NoInstance EXCEPT !.kind = "browser", !.recognition = "idle"]

\* new OpenAIVoiceInputService(apiKey)
NewOpenAIService == [NoInstance EXCEPT !.kind = "openai"]

ServiceSetLanguage_Reinitializes(v, newLanguage) ==
  [v EXCEPT !.language = newLanguage, !.restartCount = 0, !.fullTranscript = Empty]

\* setLanguage of either backend: this.language = language (the on-device
\* backend also copies it to the native object's lang)
ServiceSetLanguage(v, newLanguage) == [v EXCEPT !.language = newLanguage]

\* getLanguage of either backend
ServiceGetLanguage(v) == v.language

\* recognition.stop() on a native recognizer: only a started one reacts
RecognitionStop(state) == IF state = "running" THEN "stopping" ELSE state

\* audioContext.close() when state !== 'closed'
ContextClose(state) == IF state \in {"running", "closing"} THEN "closing" ELSE state

\* whether stopRecording suspends in await this.audioContext.close()
AwaitsClose(v) == v.audioContext \in {"running", "closing"}

\* the calls of a teardown that may throw: recognition.stop(), track.stop()
\* and audioContext.close()
TeardownFaults == SUBSET { "recognition", "track", "context" }

BrowserStopRecordingWith_Propagates(v, faults) ==
  IF "recognition" \in faults
    THEN [v EXCEPT !.isCurrentlyRecording = FALSE, !.restartCount = 0,
                   !.freshCount = 0, !.finalsAtRestart = NoRestart, !.stopped = TRUE]
  ELSE IF "track" \in faults /\ v.audioStream
    THEN [v EXCEPT !.isCurrentlyRecording = FALSE, !.restartCount = 0,
                   !.freshCount = 0, !.finalsAtRestart = NoRestart, !.stopped = TRUE,
                   !.recognition = RecognitionStop(@)]
  ELSE [v EXCEPT !.isCurrentlyRecording = FALSE, !.restartCount = 0,
                 !.freshCount = 0, !.finalsAtRestart = NoRestart, !.stopped = TRUE,
                 !.recognition = RecognitionStop(@),
                 !.audioStream = FALSE,
                 !.audioContext = IF "context" \in faults /\ AwaitsClose(v)
                                    THEN "failed" ELSE ContextClose(@)]

\* BrowserVoiceInputService.stopRecording up to its await, when the calls in
\* `faults` throw: each is inside its own try/catch, a recognizer whose stop()
\* threw is left as it was, the stream reference is cleared whether or not a
\* track threw, and a close() that rejects leaves the context unclosed
\* (freshCount, the observer's count of the session's restarts, ends with the
\* session, and so does finalsAtRestart)
BrowserStopRecordingWith(v, faults) ==
  [v EXCEPT !.isCurrentlyRecording = FALSE,
            !.stopped = TRUE,
            !.restartCount = 0,
            !.freshCount = 0,
            !.finalsAtRestart = NoRestart,
            !.recognition = IF "recognition" \in faults THEN @ ELSE RecognitionStop(@),
            !.audioStream = FALSE,
            !.audioContext = IF "context" \in faults /\ AwaitsClose(v)
                               THEN "failed" ELSE ContextClose(@)]

\* BrowserVoiceInputService.stopRecording up to its await, nothing throwing
BrowserStopRecording(v) == BrowserStopRecordingWith(v, {})

\* BrowserVoiceInputService.stopRecording's return value, read after its await
BrowserStopResult(v) == v.fullTranscript

\* BrowserVoiceInputService.reset
BrowserReset(v) ==
  [v EXCEPT !.isCurrentlyRecording = FALSE,
            !.restartCount = 0,
            !.freshCount = 0,
            !.finalsAtRestart = NoRestart,
            !.fullTranscript = Empty,
            !.recognition = RecognitionStop(@),
            !.audioStream = FALSE,
            !.audioContext = ContextClose(@)]

\* mediaRecorder.stop() when state !== 'inactive': the recorder goes inactive
\* and the platform queues one last dataavailable event
RecorderStop(v) ==
  IF v.mediaRecorder = "recording"
    THEN [v EXCEPT !.mediaRecorder = "inactive", !.finalChunkDue = TRUE]
    ELSE v

\* OpenAIVoiceInputService.stopRecording up to its await
OpenAIStopRecording(v) ==
  [RecorderStop(v) EXCEPT !.isCurrentlyRecording = FALSE,
                          !.stopped = TRUE,
                          !.audioStream = FALSE,
                          !.audioContext = ContextClose(@)]

\* OpenAIVoiceInputService.reset
OpenAIReset(v) ==
  [RecorderStop(v) EXCEPT !.isCurrentlyRecording = FALSE,
                          !.finalTranscription = Empty,
                          !.processedTranscriptions = {},
                          !.audioStream = FALSE,
                          !.audioContext = ContextClose(@)]

\* what stopRecording resolves to when nothing was transcribed
Completed == << "Voice input completed" >>

\* OpenAIVoiceInputService.stopRecording's return value, read after its await
OpenAIStopResult(v) ==
  IF v.finalTranscription # Empty THEN v.finalTranscription ELSE Completed

ServiceStopRecording(v) ==
  IF v.kind = "browser" THEN BrowserStopRecording(v) ELSE OpenAIStopRecording(v)

ServiceStopRecordingWith(v, faults) ==
  IF v.kind = "browser" THEN BrowserStopRecordingWith(v, faults) ELSE OpenAIStopRecording(v)

ServiceReset(v) ==
  IF v.kind = "browser" THEN BrowserReset(v) ELSE OpenAIReset(v)

\* ------------------------------------------- the presentation shell
\* TextareaWithVoice: the field's text and selection, the component's refs,
\* and the isVoiceTranscribing that the closure handed to the hook sees.
\* Positions count characters from 0, as in the code.
NoPosition == -1       \* interimStartRef.current === null

\* t.slice(0, n) and t.slice(n), which clamp n to the length of t
SliceTo(t, n) == SubSeq(t, 1, IF n > Len(t) THEN Len(t) ELSE n)
SliceFrom(t, n) == SubSeq(t, (IF n > Len(t) THEN Len(t) ELSE n) + 1, Len(t))

\* the hook used without the shell
NoShell ==
  [ present |-> FALSE, transcriptionMode |-> "replace",
    value |-> Empty, selectionStart |-> 0, selectionEnd |-> 0,
    lastTranscriptRef |-> Empty, interimTextRef |-> Empty,
    interimStartRef |-> NoPosition,
    restartTimeoutRef |-> FALSE,      \* a force-cycle timer is pending
    isVoiceTranscribing |-> FALSE,    \* as captured by the session's callback
    \* observation only: the utterance in progress (the field and selection
    \* when its first update came), what the field should hold after its
    \* final update, whether a final delta was applied while recording since
    \* the last manual stop, the session still to deliver its first final
    \* text, whether such a text was not inserted in full, and the updates
    \* applied so far
    inUtterance |-> FALSE, utteranceValue |-> Empty,
    utteranceStart |-> 0, utteranceEnd |-> 0,
    settled |-> FALSE, expected |-> Empty,
    cycleDue |-> FALSE, firstFinalOf |-> NoService, lost |-> FALSE,
    updates |-> 0 ]

\* resetInterim
ResetInterim(sh) == [sh EXCEPT !.interimTextRef = Empty, !.interimStartRef = NoPosition]

\* the field after the utterance: the final text inserted once into the
\* field as it was before the utterance
ExpectedValue(mode, before, start, end, text) ==
  IF mode = "append"
    THEN (IF before # Empty THEN before \o << " " >> \o text ELSE text)
    ELSE SliceTo(before, start) \o text \o SliceFrom(before, IF end > start THEN end ELSE start)

\* options.onTranscriptionUpdate of TextareaWithVoice, called by the hook for
\* backend s.  onChange(nextValue) sets the controlled field's value, which
\* moves the caret to the end of the field (HTML: the value setter).
OnTranscriptionUpdate(sh, s, text, isFinal) ==
  LET raw == Trim(text)
      start == sh.interimStartRef
      baseValue ==
        IF sh.interimStartRef # NoPosition /\ sh.interimTextRef # Empty
          THEN SliceTo(sh.value, start) \o SliceFrom(sh.value, start + Len(sh.interimTextRef))
          ELSE sh.value
      prior == sh.lastTranscriptRef
      delta == IF prior # Empty /\ StartsWith(raw, prior)
                 THEN TrimStart(Slice(raw, Len(prior))) ELSE raw
      insertStart == sh.selectionStart
      insertEnd == IF sh.selectionEnd > sh.selectionStart THEN sh.selectionEnd ELSE insertStart
      nextValue ==
        IF sh.transcriptionMode = "append"
          THEN (IF baseValue # Empty THEN baseValue \o << " " >> \o delta ELSE delta)
          ELSE SliceTo(baseValue, insertStart) \o delta \o SliceFrom(baseValue, insertEnd)
      \* observation: the utterance this update belongs to
      u == IF sh.inUtterance THEN sh
           ELSE [sh EXCEPT !.utteranceValue = sh.value,
                           !.utteranceStart = sh.selectionStart,
                           !.utteranceEnd = sh.selectionEnd]
      seen == [u EXCEPT !.updates = @ + 1,
                        !.settled = FALSE,
                        !.firstFinalOf = IF isFinal /\ s = @ THEN NoService ELSE @,
                        !.lost = @ \/ (isFinal /\ s = sh.firstFinalOf /\ delta # raw)]
  IN  IF raw = Empty THEN sh
      ELSE IF delta = Empty
        THEN [ResetInterim(seen) EXCEPT !.inUtterance = IF isFinal THEN FALSE ELSE TRUE]
      ELSE IF isFinal
        THEN [ResetInterim(seen) EXCEPT
                !.value = nextValue,
                !.selectionStart = Len(nextValue),
                !.selectionEnd = Len(nextValue),
                !.lastTranscriptRef = raw,
                !.restartTimeoutRef = sh.isVoiceTranscribing,
                !.inUtterance = FALSE,
                !.settled = TRUE,
                !.expected = ExpectedValue(sh.transcriptionMode, u.utteranceValue,
                                           u.utteranceStart, u.utteranceEnd, delta),
                !.cycleDue = @ \/ isRecording]
      ELSE [seen EXCEPT
                !.value = nextValue,
                !.selectionStart = Len(nextValue),
                !.selectionEnd = Len(nextValue),
                !.interimTextRef = delta,
                !.interimStartRef = insertStart,
                !.inUtterance = TRUE]

RECURSIVE ShellAfter(_, _, _)
\* the shell after the hook made the given onTranscriptionUpdate calls
ShellAfter(sh, s, emitted) ==
  IF ~sh.present \/ emitted = << >> THEN sh
  ELSE ShellAfter(OnTranscriptionUpdate(sh, s, Head(emitted)[1], Head(emitted)[2]),
                  s, Tail(emitted))

\* handleStartTranscription before it calls the hook's startRecording(): the
\* callback the new session k will invoke belongs to the render in which the
\* start button was shown, and keeps that render's isVoiceTranscribing
HandleStart(sh, k) ==
  IF sh.present
    THEN [ResetInterim(sh) EXCEPT !.isVoiceTranscribing = isRecording,
                                  !.firstFinalOf = k,
                                  !.inUtterance = FALSE, !.settled = FALSE]
    ELSE sh

\* handleStopTranscription after it called the hook's stopRecording()
HandleStop(sh) ==
  IF sh.present
    THEN [ResetInterim(sh) EXCEPT !.restartTimeoutRef = FALSE,
                                  !.cycleDue = FALSE,
                                  !.inUtterance = FALSE, !.settled = FALSE]
    ELSE sh

\* ------------------------------------------------------------- the hook
NoError == "null"

\* A startRecording call: where it is suspended, the backend whose stop it
\* awaits, and (observation) what it passed to onError and what the hook's
\* state was when it returned.
NotCalled == [ pc |-> "idle", old |-> NoService, onError |-> << >>,
               refused |-> FALSE, returned |-> << >>,
               language |-> "auto", created |-> << >> ]

\* startRecording's catch: error.name === 'NotAllowedError' ||
\* error.message.includes('microphone')
IsPermissionError(thrown) ==
  thrown.name = "NotAllowedError" \/ thrown.mentionsMicrophone

StartErrorMessage(thrown) ==
  IF IsPermissionError(thrown) THEN "Microphone permission denied"
  ELSE "Failed to start recording"

SelectService_CloudFirst(speechRecognition, apiKey) ==
  IF apiKey THEN "openai" ELSE IF speechRecognition THEN "browser" ELSE "none"

\* createVoiceInputService: which backend, or "none" when it throws
SelectService(speechRecognition, apiKey) ==
  IF speechRecognition THEN "browser" ELSE IF apiKey THEN "openai" ELSE "none"

\* createVoiceInputService(language): the instance it returns, with
\* service.setLanguage(language) applied; NoInstance when it throws
CreateVoiceInputService(speechRecognition, apiKey, requested) ==
  LET kind == SelectService(speechRecognition, apiKey)
  IN  IF kind = "browser" THEN ServiceSetLanguage(NewBrowserService, requested)
      ELSE IF kind = "openai" THEN ServiceSetLanguage(NewOpenAIService, requested)
      ELSE NoInstance

\* what the call keeps of the instance the factory returned (observation)
Created(call, requested, instance) ==
  [call EXCEPT !.language = requested,
               !.created = << [kind |-> instance.kind,
                               language |-> ServiceGetLanguage(instance)] >>]

\* what a finished startRecording call leaves for the observer
Returned(call, recording, denied) ==
  [call EXCEPT !.pc = "done",
               !.returned = << [isRecording |-> recording, permissionDenied |-> denied] >>]

\* startRecording from createVoiceInputService to the await on getUserMedia
\* inside the backend's startRecording, or through the catch when the
\* factory throws.  `services` is the instances after the cleanup stop.
CreateAndStart(k, services, err, denied, requested) ==
  LET service == CreateVoiceInputService(hasSpeechRecognition, hasApiKey, requested)
      kind == service.kind
      thrown == [name |-> "Error", mentionsMicrophone |-> FALSE]
  IN  IF kind = "browser"
        THEN /\ svc' = [services EXCEPT ![k] =
                          [service EXCEPT !.isCurrentlyRecording = TRUE]]
             /\ voiceServiceRef' = k
             /\ startCall' = [startCall EXCEPT
                                ![k] = [Created(@, requested, service) EXCEPT !.pc = "awaitMic"]]
             /\ error' = err
             /\ permissionDenied' = denied
             /\ UNCHANGED isRecording
      ELSE IF kind = "openai"
        THEN /\ svc' = [services EXCEPT ![k] = service]
             /\ voiceServiceRef' = k
             /\ startCall' = [startCall EXCEPT
                                ![k] = [Created(@, requested, service) EXCEPT !.pc = "awaitMic"]]
             /\ error' = err
             /\ permissionDenied' = denied
             /\ UNCHANGED isRecording
      ELSE   /\ svc' = services
             /\ error' = StartErrorMessage(thrown)
             /\ permissionDenied' = (denied \/ IsPermissionError(thrown))
             /\ startCall' = [startCall EXCEPT ![k] =
                   Returned([Created(@, requested, service) EXCEPT
                               !.onError = Append(@, StartErrorMessage(thrown))],
                            isRecording, denied \/ IsPermissionError(thrown))]
             /\ UNCHANGED << voiceServiceRef, isRecording >>

\* options.emitMode === 'delta' && options.getBaselineText: the trimmed
\* baseline replaces processedRef when it is not empty
SeedBaseline(processed) ==
  IF emitMode = "delta" /\ Trim(baselineText) # Empty THEN Trim(baselineText)
  ELSE processed

\* The next startRecording call is the lowest one not made yet.
NextCall(k) == startCall[k].pc = "idle" /\ \A j \in Services : j < k => startCall[j].pc # "idle"

\* startRecording, from its first line to its first suspension
StartRecording(k) ==
  /\ NextCall(k)
  /\ shell' = HandleStart(shell, k)
  /\ transcription' = Empty
  /\ interimTranscription' = Empty
  /\ transcriptionHistoryRef' = Empty
  /\ isCancelledRef' = FALSE
  /\ processedRef' = SeedBaseline(processedRef)
  /\ obs' = [obs EXCEPT !.kept = Empty, !.pending = Empty,
                         !.extending = TRUE, !.lastText = Empty]
  /\ IF voiceServiceRef # NoService /\ AwaitsClose(svc[voiceServiceRef])
       THEN /\ svc' = [svc EXCEPT ![voiceServiceRef] = ServiceStopRecording(@)]
            /\ startCall' = [startCall EXCEPT ![k].pc = "awaitOldStop",
                                              ![k].old = voiceServiceRef,
                                              ![k].language = language]
            /\ error' = NoError
            /\ permissionDenied' = FALSE
            /\ UNCHANGED << voiceServiceRef, isRecording >>
       ELSE CreateAndStart(k,
                 IF voiceServiceRef # NoService
                   THEN [svc EXCEPT ![voiceServiceRef] = ServiceStopRecording(@)]
                   ELSE svc,
                 NoError, FALSE, language)
  /\ UNCHANGED << config, languageState, visualState, stopCalls >>

\* startRecording resumed after await voiceServiceRef.current.stopRecording(true)
StartAfterOldStop(k) ==
  /\ startCall[k].pc = "awaitOldStop"
  /\ ~AwaitsClose(svc[startCall[k].old])
  /\ CreateAndStart(k, svc, error, permissionDenied, startCall[k].language)
  /\ UNCHANGED << config, shell, languageState, visualState, transcription, interimTranscription, isCancelledRef,
                  processedRef, transcriptionHistoryRef, stopCalls, obs >>

\* recognition.start() on the object the constructor made; `granted` tells
\* whether the platform lets it capture
RecognitionStart(state, granted) ==
  IF state = "idle" THEN (IF granted THEN "running" ELSE "refused") ELSE state

\* BrowserVoiceInputService.startRecording after await getUserMedia: a
\* rejection is caught and logged, the handlers are set and recognition starts
BrowserAfterMic(v, granted) ==
  [v EXCEPT !.audioStream = IF granted THEN TRUE ELSE @,
            !.audioContext = IF granted THEN "running" ELSE @,
            !.recognition = RecognitionStart(@, granted)]

\* OpenAIVoiceInputService.startRecording after getUserMedia resolved
OpenAIAfterMic(v) ==
  [v EXCEPT !.audioStream = TRUE,
            !.audioContext = "running",
            !.mediaRecorder = "recording",
            !.isCurrentlyRecording = TRUE]

\* animationFrameRef.current when no frame was requested, or after stopRecording
NoFrame == 0

\* voiceServiceRef.current?.isRecording() in updateVisualization, given the instances
Polls(services) ==
  voiceServiceRef # NoService /\ services[voiceServiceRef].isCurrentlyRecording

\* updateVisualization run by loop j: while the backend held reports
\* recording it forwards a sample and requests the next frame, keeping the
\* frame in animationFrameRef; otherwise it does nothing and the loop ends
UpdateVisualization(j, services) ==
  IF Polls(services)
    THEN /\ frames' = frames \cup {j}
         /\ animationFrameRef' = j
    ELSE /\ frames' = frames \ {j}
         /\ UNCHANGED animationFrameRef

\* startRecording after setIsRecording(true): the first updateVisualization()
\* of a new loop, if options.onVisualizationUpdate is given
StartVisualization(k, services) ==
  /\ IF onVisualizationUpdate THEN UpdateVisualization(k, services)
                              ELSE UNCHANGED << frames, animationFrameRef >>
  /\ UNCHANGED << onVisualizationUpdate, mounted >>

\* cancelAnimationFrame(animationFrameRef.current) when the ref is set
CancelFrame == frames' = frames \ {animationFrameRef}

\* the host's animation tick runs the pending callback of loop j
Tick(j) ==
  /\ j \in frames
  /\ UpdateVisualization(j, svc)
  /\ UNCHANGED << config, shell, languageState, onVisualizationUpdate, mounted, hookState,
                  startCall, stopCalls, svc, obs >>

\* getUserMedia resolves: the backend's startRecording finishes and the
\* hook's continuation sets isRecording
MicGranted(k) ==
  /\ startCall[k].pc = "awaitMic"
  /\ svc' = [svc EXCEPT ![k] = IF @.kind = "browser" THEN BrowserAfterMic(@, TRUE)
                               ELSE OpenAIAfterMic(@)]
  /\ StartVisualization(k, svc')
  /\ isRecording' = TRUE
  /\ startCall' = [startCall EXCEPT ![k] = Returned(@, TRUE, permissionDenied)]
  /\ UNCHANGED << config, shell, languageState, transcription, interimTranscription, error, permissionDenied,
                  voiceServiceRef, isCancelledRef, processedRef,
                  transcriptionHistoryRef, stopCalls, obs >>

\* getUserMedia rejects (access refused).  The on-device backend goes on and
\* the hook sets isRecording; the cloud backend throws
\* new Error('Failed to access microphone') into the hook's catch.
MicRefused(k) ==
  /\ startCall[k].pc = "awaitMic"
  /\ IF svc[k].kind = "browser"
       THEN /\ svc' = [svc EXCEPT ![k] = BrowserAfterMic(@, FALSE)]
            /\ StartVisualization(k, svc')
            /\ isRecording' = TRUE
            /\ startCall' = [startCall EXCEPT ![k] =
                  Returned([@ EXCEPT !.refused = TRUE], TRUE, permissionDenied)]
            /\ UNCHANGED << error, permissionDenied >>
       ELSE LET thrown == [name |-> "Error", mentionsMicrophone |-> TRUE]
            IN  /\ error' = StartErrorMessage(thrown)
                /\ permissionDenied' = (permissionDenied \/ IsPermissionError(thrown))
                /\ startCall' = [startCall EXCEPT ![k] =
                      Returned([@ EXCEPT !.refused = TRUE,
                                         !.onError = Append(@, StartErrorMessage(thrown))],
                               isRecording, permissionDenied \/ IsPermissionError(thrown))]
                /\ UNCHANGED << svc, isRecording, visualState >>
  /\ UNCHANGED << config, shell, languageState, transcription, interimTranscription, voiceServiceRef,
                  isCancelledRef, processedRef, transcriptionHistoryRef, stopCalls, obs >>

\* the backend's startRecording when, after getUserMedia resolved, a later
\* step throws: the stream and the audio graph are already in place
AfterMicThrows(v) == [v EXCEPT !.audioStream = TRUE, !.audioContext = "running"]

\* getUserMedia resolves and the backend's startRecording then throws: the
\* on-device backend rethrows what recognition.start() threw, the cloud backend
\* turns a failing MediaRecorder constructor or start() into
\* new Error('Failed to access microphone'); the hook's catch reports it
StartThrows(k) ==
  /\ startCall[k].pc = "awaitMic"
  /\ LET thrown == IF svc[k].kind = "browser"
                     THEN [name |-> "InvalidStateError", mentionsMicrophone |-> FALSE]
                     ELSE [name |-> "Error", mentionsMicrophone |-> TRUE]
     IN  /\ svc' = [svc EXCEPT ![k] = AfterMicThrows(@)]
         /\ error' = StartErrorMessage(thrown)
         /\ permissionDenied' = (permissionDenied \/ IsPermissionError(thrown))
         /\ startCall' = [startCall EXCEPT ![k] =
               Returned([@ EXCEPT !.onError = Append(@, StartErrorMessage(thrown))],
                        isRecording, permissionDenied \/ IsPermissionError(thrown))]
  /\ UNCHANGED << config, shell, languageState, visualState, isRecording, transcription,
                  interimTranscription, voiceServiceRef, isCancelledRef, processedRef,
                  transcriptionHistoryRef, stopCalls, obs >>

\* stopRecording's continuation: setIsRecording(false), the frame in
\* animationFrameRef cancelled and the ref cleared, and reset() on whatever
\* voiceServiceRef holds by then
StopFinish(services) ==
  /\ isRecording' = FALSE
  /\ CancelFrame
  /\ animationFrameRef' = NoFrame
  /\ UNCHANGED << onVisualizationUpdate, mounted >>
  /\ svc' = IF voiceServiceRef # NoService
              THEN [services EXCEPT ![voiceServiceRef] = ServiceReset(@)]
              ELSE services

Stoppable_AnyBackend == voiceServiceRef # NoService

\* stopRecording's guard: if (!voiceServiceRef.current || !isRecording) return
Stoppable == voiceServiceRef # NoService /\ isRecording

\* stopRecording(cancelled), from its guard to its first suspension, when
\* the teardown calls in `faults` throw inside the backend
StopRecordingWith(cancelled, faults) ==
  /\ Stoppable
  /\ shell' = IF cancelled THEN shell ELSE HandleStop(shell)
  /\ isCancelledRef' = cancelled
  /\ obs' = [obs EXCEPT !.cancelled = IF cancelled THEN @ \cup {voiceServiceRef} ELSE @]
  /\ IF AwaitsClose(svc[voiceServiceRef])
       THEN /\ stopCalls[voiceServiceRef] < MaxStops
            /\ svc' = [svc EXCEPT ![voiceServiceRef] = ServiceStopRecordingWith(@, faults)]
            /\ stopCalls' = [stopCalls EXCEPT ![voiceServiceRef] = @ + 1]
            /\ UNCHANGED << isRecording, visualState >>
       ELSE /\ StopFinish([svc EXCEPT ![voiceServiceRef] = ServiceStopRecordingWith(@, faults)])
            /\ UNCHANGED stopCalls
  /\ UNCHANGED << config, languageState, transcription, interimTranscription, error, permissionDenied,
                  voiceServiceRef, processedRef, transcriptionHistoryRef, startCall >>

\* stopRecording(cancelled), from its guard to its first suspension
StopRecording(cancelled) == StopRecordingWith(cancelled, {})

\* stopRecording resumed after await voiceServiceRef.current.stopRecording(cancelled)
StopAfterAwait(s) ==
  /\ stopCalls[s] > 0
  /\ ~AwaitsClose(svc[s])
  /\ StopFinish(svc)
  /\ stopCalls' = [stopCalls EXCEPT ![s] = @ - 1]
  /\ UNCHANGED << config, shell, languageState, transcription, interimTranscription, error, permissionDenied,
                  voiceServiceRef, isCancelledRef, processedRef,
                  transcriptionHistoryRef, startCall, obs >>

\* stopRecording(cancelled) when the promise of the backend's stopRecording
\* rejects: the catch block.  Neither backend of voiceInput rejects by
\* itself (each catches its own errors); the hook provides for a
\* VoiceInputService that does.
StopRecordingFails(cancelled) ==
  /\ voiceServiceRef # NoService
  /\ isRecording
  /\ isCancelledRef' = cancelled
  /\ obs' = [obs EXCEPT !.cancelled = IF cancelled THEN @ \cup {voiceServiceRef} ELSE @]
  /\ error' = "Failed to stop recording"
  /\ svc' = [svc EXCEPT ![voiceServiceRef] = ServiceReset(@)]
  /\ UNCHANGED << config, shell, languageState, visualState, isRecording, transcription, interimTranscription,
                  permissionDenied, voiceServiceRef, processedRef,
                  transcriptionHistoryRef, startCall, stopCalls >>

\* the cleanup effect at unmount: stopRecording(true) on the backend held,
\* not awaited, then reset(), then the frame in animationFrameRef cancelled
Unmount ==
  /\ mounted
  /\ mounted' = FALSE
  /\ svc' = IF voiceServiceRef # NoService
              THEN [svc EXCEPT ![voiceServiceRef] = ServiceReset(ServiceStopRecording(@))]
              ELSE svc
  /\ CancelFrame
  /\ UNCHANGED << config, shell, languageState, onVisualizationUpdate, animationFrameRef,
                  hookState, startCall, stopCalls, obs >>

\* the platform finishes closing an audio context
AudioContextClosed(s) ==
  /\ svc[s].audioContext = "closing"
  /\ svc' = [svc EXCEPT ![s].audioContext = "closed"]
  /\ UNCHANGED << config, shell, languageState, visualState, hookState, startCall, stopCalls, obs >>

\* ------------------------------------------------------- language
\* VOICE_LANGUAGES: (code, name, flag); a flag is written as its letters
VOICE_LANGUAGES ==
  << [code |-> "auto",  name |-> "Auto-detect",  flag |-> "globe"],
     [code |-> "de",    name |-> "German",       flag |-> "DE"],
     [code |-> "en-GB", name |-> "English (UK)", flag |-> "GB"],
     [code |-> "en-US", name |-> "English (US)", flag |-> "US"],
     [code |-> "es",    name |-> "Spanish",      flag |-> "ES"],
     [code |-> "fr",    name |-> "French",       flag |-> "FR"],
     [code |-> "hi",    name |-> "Hindi",        flag |-> "IN"],
     [code |-> "it",    name |-> "Italian",      flag |-> "IT"],
     [code |-> "ja",    name |-> "Japanese",     flag |-> "JP"],
     [code |-> "ko",    name |-> "Korean",       flag |-> "KR"],
     [code |-> "nl",    name |-> "Dutch",        flag |-> "NL"],
     [code |-> "pl",    name |-> "Polish",       flag |-> "PL"],
     [code |-> "pt",    name |-> "Portuguese",   flag |-> "PT"],
     [code |-> "ro",    name |-> "Romanian",     flag |-> "RO"],
     [code |-> "ru",    name |-> "Russian",      flag |-> "RU"],
     [code |-> "zh",    name |-> "Chinese",      flag |-> "CN"],
     [code |-> "zh-TW", name |-> "Chinese (TW)", flag |-> "TW"] >>

NotFound == 0

Find_Last(languageCode) ==
  IF \E i \in DOMAIN VOICE_LANGUAGES : VOICE_LANGUAGES[i].code = languageCode
    THEN Len(VOICE_LANGUAGES)
    ELSE NotFound

\* VOICE_LANGUAGES.find(l => l.code === languageCode): the index of the
\* first entry with the code, NotFound for undefined
Find(languageCode) ==
  IF \E i \in DOMAIN VOICE_LANGUAGES : VOICE_LANGUAGES[i].code = languageCode
    THEN CHOOSE i \in DOMAIN VOICE_LANGUAGES :
           /\ VOICE_LANGUAGES[i].code = languageCode
           /\ \A j \in 1 .. i - 1 : VOICE_LANGUAGES[j].code # languageCode
    ELSE NotFound

\* getLanguageDisplay: `${lang.flag} ${lang.name}`, or the literal default
getLanguageDisplay(languageCode) ==
  IF Find(languageCode) # NotFound
    THEN << VOICE_LANGUAGES[Find(languageCode)].flag, " ",
            VOICE_LANGUAGES[Find(languageCode)].name >>
    ELSE << "globe", " ", "Auto-detect" >>

\* getLanguageFlag
getLanguageFlag(languageCode) ==
  IF Find(languageCode) # NotFound THEN VOICE_LANGUAGES[Find(languageCode)].flag
  ELSE "globe"

\* codes a caller may pass: those of the table and some that are not in it
Codes == { VOICE_LANGUAGES[i].code : i \in DOMAIN VOICE_LANGUAGES } \cup { "xx", "en", "" }

\* what a language selector renders for a code
Lookup(languageCode) ==
  [ code |-> languageCode,
    display |-> getLanguageDisplay(languageCode),
    flag |-> getLanguageFlag(languageCode) ]

ShowLanguage(languageCode) ==
  /\ shown' = Lookup(languageCode)
  /\ UNCHANGED << config, shell, language, visualState, hookState, startCall, stopCalls, svc, obs >>

\* the hook's setLanguage and the effect on [language]: a backend held in
\* voiceServiceRef has its language set
SetLanguage(newLanguage) ==
  /\ language' = newLanguage
  /\ svc' = IF voiceServiceRef # NoService
              THEN [svc EXCEPT ![voiceServiceRef] = ServiceSetLanguage(@, newLanguage)]
              ELSE svc
  /\ UNCHANGED << config, shell, shown, visualState, hookState, startCall, stopCalls, obs >>

\* the hook's getLanguage: voiceServiceRef.current?.getLanguage() || language
GetLanguage ==
  IF voiceServiceRef # NoService /\ ServiceGetLanguage(svc[voiceServiceRef]) # ""
    THEN ServiceGetLanguage(svc[voiceServiceRef])
    ELSE language

\* ------------------------------------------- the observer of the consumer
\* One onTranscriptionUpdate(text, isFinal) reaching the consumer from the
\* callback of backend s.  For delta mode kept/pending follow the consumer
\* rule "an interim is overwritten by the next update, a final is kept".
ObserveUpdate(o, s, update) ==
  [o EXCEPT !.late = @ \/ (s \in o.cancelled),
            !.kept = IF emitMode = "delta" /\ update[2] THEN @ \o update[1] ELSE @,
            !.pending = IF emitMode = "delta" /\ ~update[2] THEN update[1] ELSE @]

RECURSIVE ObserveAll(_, _, _)
ObserveAll(o, s, emitted) ==
  IF emitted = << >> THEN o
  ELSE ObserveAll(ObserveUpdate(o, s, Head(emitted)), s, Tail(emitted))

\* One (text, isFinal) the backend reports in a delta-mode session: whether
\* every text so far strictly extended the one before it.
ObserveCall(o, call) ==
  IF emitMode = "delta"
    THEN [o EXCEPT !.extending = @ /\ StartsWith(call[1], o.lastText)
                                   /\ call[1] # o.lastText,
                   !.lastText = call[1]]
    ELSE o

RECURSIVE ObserveCalls(_, _)
ObserveCalls(o, calls) ==
  IF calls = << >> THEN o
  ELSE ObserveCalls(ObserveCall(o, Head(calls)), Tail(calls))

\* The hook's variables after the backend's handler ran its callbacks, and
\* the observer and the shell after the updates they made.  `calls` are the callback
\* invocations the handler made, in order.
Deliver(s, h, calls) ==
  /\ transcription' = h.transcription
  /\ interimTranscription' = h.interimTranscription
  /\ processedRef' = h.processedRef
  /\ transcriptionHistoryRef' = h.transcriptionHistoryRef
  /\ obs' = ObserveAll(ObserveCalls(obs, calls), s, h.emitted)
  /\ shell' = ShellAfter(shell, s, h.emitted)

\* ------------------------------------- the on-device backend's handlers
\* event.results from event.resultIndex on: each [transcript, isFinal]
ResultLists ==
  UNION { [1 .. n -> [transcript : Transcripts, isFinal : BOOLEAN]] : n \in 1 .. MaxResults }

RECURSIVE Collect(_, _)
\* the loop of onresult: the transcripts with the given isFinal, concatenated
Collect(results, final) ==
  IF results = << >> THEN Empty
  ELSE (IF Head(results).isFinal = final THEN Head(results).transcript ELSE Empty)
       \o Collect(Tail(results), final)

RECURSIVE FinalSegments(_)
FinalSegments(results) ==
  IF results = << >> THEN << >>
  ELSE (IF Head(results).isFinal THEN << Head(results).transcript >> ELSE << >>)
       \o FinalSegments(Tail(results))

ResultCalls_FinalFirst(v, results) ==
  LET interimTranscript == Collect(results, FALSE)
      finalTranscript   == Collect(results, TRUE)
  IN  (IF finalTranscript # Empty
         THEN << << v.fullTranscript \o finalTranscript, TRUE >> >> ELSE << >>)
      \o
      (IF interimTranscript # Empty
         THEN << << v.fullTranscript \o finalTranscript \o interimTranscript, FALSE >> >>
         ELSE << >>)

\* recognition.onresult: the callback invocations it makes, in order
ResultCalls(v, results) ==
  LET interimTranscript == Collect(results, FALSE)
      finalTranscript   == Collect(results, TRUE)
  IN  (IF interimTranscript # Empty
         THEN << << v.fullTranscript \o interimTranscript, FALSE >> >> ELSE << >>)
      \o
      (IF finalTranscript # Empty
         THEN << << v.fullTranscript \o finalTranscript, TRUE >> >> ELSE << >>)

\* recognition.onresult: the backend's own state afterwards
ResultState(v, results) ==
  [v EXCEPT !.fullTranscript = @ \o Collect(results, TRUE),
            !.finalized = @ \o FinalSegments(results)]

RECURSIVE RunCalls(_, _)
\* the hook's callback applied to each invocation in turn
RunCalls(h, calls) ==
  IF calls = << >> THEN h
  ELSE RunCalls(TranscriptionCallback(h, Head(calls)[1], Head(calls)[2]), Tail(calls))

\* this.isCurrentlyRecording && this.restartCount < this.maxRestarts
RestartAllowed_NoCap(v) == v.isCurrentlyRecording

RestartAllowed(v) == v.isCurrentlyRecording /\ v.restartCount < maxRestarts

\* this.restartCount++ and the setTimeout that will create a fresh object
ScheduleRestart(v, cause) ==
  IF RestartAllowed(v)
    THEN [v EXCEPT !.restartCount = @ + 1, !.timers[cause] = @ + 1]
    ELSE v

\* recognition.onerror
OnError(v, e) ==
  IF e = "no-speech" THEN ScheduleRestart(v, "error")
  ELSE IF e = "aborted" THEN v
  ELSE ScheduleRestart(v, "error")

\* recognition.onend; `cause` records what the ended recognizer had reported
OnEnd(v, cause) == ScheduleRestart(v, cause)

EndCause(state) == IF state = "aborted" THEN "end-after-abort" ELSE "end"

CreateFreshRecognition_ClearsText(v) ==
  LET stopped == IF v.recognition = "refused" THEN "errored"
                 ELSE RecognitionStop(v.recognition)
  IN  [v EXCEPT !.old = IF stopped \in OldStates
                          THEN [@ EXCEPT ![stopped] = @ + 1] ELSE @,
                !.recognition = RecognitionStart("idle", v.audioStream),
                !.fullTranscript = Empty,
                !.freshCount = @ + 1,
                !.finalsAtRestart = Len(v.finalized)]

\* createFreshRecognition: stop the old object, construct, wire and start a
\* new one.  The old object keeps its handlers and still owes its end event.
\* (finalsAtRestart: how many results the session had finalized by then)
CreateFreshRecognition(v) ==
  LET stopped == IF v.recognition = "refused" THEN "errored"
                 ELSE RecognitionStop(v.recognition)
  IN  [v EXCEPT !.old = IF stopped \in OldStates
                          THEN [@ EXCEPT ![stopped] = @ + 1] ELSE @,
                !.recognition = RecognitionStart("idle", v.audioStream),
                !.freshCount = @ + 1,
                !.finalsAtRestart = Len(v.finalized)]

RestartTimer_Inverted(v) == IF ~v.isCurrentlyRecording THEN CreateFreshRecognition(v) ELSE v

\* the body of a restart timer: if (this.isCurrentlyRecording) createFreshRecognition
RestartTimer(v) == IF v.isCurrentlyRecording THEN CreateFreshRecognition(v) ELSE v

\* ----------------------------------------- the native recognizer's events
HookUnchanged == UNCHANGED << isRecording, error, permissionDenied, voiceServiceRef,
                              isCancelledRef >>

\* a result event of backend s's recognizer, or of a stopped one flushing
NativeResult(s, results) ==
  /\ svc[s].recognition \in {"running", "stopping"} \/ svc[s].old["stopping"] > 0
  /\ Len(svc[s].finalized) + Len(FinalSegments(results)) <= MaxText
  /\ svc' = [svc EXCEPT ![s] = ResultState(@, results)]
  /\ Deliver(s, RunCalls(HookText, ResultCalls(svc[s], results)), ResultCalls(svc[s], results))
  /\ HookUnchanged
  /\ UNCHANGED << config, languageState, visualState, startCall, stopCalls >>

NativeErrors == { "no-speech", "aborted", "network" }

HandlerCalls_Replays(v) == << << v.fullTranscript, TRUE >> >>

\* onerror, onend and the restart timer: the onTranscription invocations
\* they make, which is none (createFreshRecognition only passes it on)
HandlerCalls(v) == << >>

\* an error event of backend s's current recognizer; one started without
\* microphone access only ever reports 'not-allowed'
NativeError(s, e) ==
  /\ \/ svc[s].recognition = "running" /\ e \in NativeErrors
     \/ svc[s].recognition = "refused" /\ e = "not-allowed"
  /\ svc' = [svc EXCEPT ![s] =
               [OnError(@, e) EXCEPT !.recognition = IF e = "aborted" THEN "aborted"
                                                     ELSE "errored"]]
  /\ Deliver(s, RunCalls(HookText, HandlerCalls(svc[s])), HandlerCalls(svc[s]))
  /\ HookUnchanged
  /\ UNCHANGED << config, languageState, visualState, startCall, stopCalls >>

\* the end event of backend s's current recognizer
NativeEnd(s) ==
  /\ svc[s].recognition \in {"running", "stopping", "errored", "aborted"}
  /\ svc' = [svc EXCEPT ![s] =
               [OnEnd(@, EndCause(svc[s].recognition)) EXCEPT !.recognition = "ended"]]
  /\ Deliver(s, RunCalls(HookText, HandlerCalls(svc[s])), HandlerCalls(svc[s]))
  /\ HookUnchanged
  /\ UNCHANGED << config, languageState, visualState, startCall, stopCalls >>

\* the end event of a recognizer createFreshRecognition had discarded
OldEnd(s, state) ==
  /\ svc[s].old[state] > 0
  /\ svc' = [svc EXCEPT ![s] =
               [OnEnd(@, EndCause(state)) EXCEPT !.old[state] = @ - 1]]
  /\ Deliver(s, RunCalls(HookText, HandlerCalls(svc[s])), HandlerCalls(svc[s]))
  /\ HookUnchanged
  /\ UNCHANGED << config, languageState, visualState, startCall, stopCalls >>

\* a restart timer set by onerror or onend fires
TimerFire(s, cause) ==
  /\ svc[s].timers[cause] > 0
  /\ svc' = [svc EXCEPT ![s] = [RestartTimer(@) EXCEPT !.timers[cause] = @ - 1]]
  /\ Deliver(s, RunCalls(HookText, HandlerCalls(svc[s])), HandlerCalls(svc[s]))
  /\ HookUnchanged
  /\ UNCHANGED << config, languageState, visualState, startCall, stopCalls >>

\* ------------------------------------------------- the cloud backend
\* a recorded chunk: its byte size and whether its MIME type names webm, mp4 or wav
Chunks == [size : {0, MinChunkSize - 1, MinChunkSize}, knownType : BOOLEAN]

ChunkValid_AnySize(chunk) == chunk.knownType

\* transcribeAudio's validation
ChunkValid(chunk) == chunk.size >= MinChunkSize /\ chunk.knownType

SubmitsChunk_Every(counter) == counter >= 1

\* transcribeAudio: only the first chunk of the session is submitted
SubmitsChunk(counter) == counter = 1

\* ondataavailable -> sendAudioChunk -> transcribeAudio, to the await on fetch
TranscribeAudio(v, chunk) ==
  IF chunk.size > 0
    THEN [v EXCEPT !.chunkCounter = @ + 1,
                   !.inflight = IF ChunkValid(chunk) /\ SubmitsChunk(v.chunkCounter + 1)
                                  THEN @ + 1 ELSE @,
                   !.chunksEmitted = @ + 1,
                   !.requests = IF ChunkValid(chunk) /\ SubmitsChunk(v.chunkCounter + 1)
                                  THEN Append(@, [index |-> v.chunksEmitted + 1,
                                                  chunk |-> chunk])
                                  ELSE @]
    ELSE [v EXCEPT !.chunksEmitted = @ + 1]

\* the media recorder emits a chunk: every timeslice while recording, and
\* once more after stop()
DataAvailable(s, chunk) ==
  /\ \/ svc[s].mediaRecorder = "recording" /\ svc[s].chunksEmitted < MaxChunks
     \/ svc[s].finalChunkDue
  /\ svc' = [svc EXCEPT ![s] =
               [TranscribeAudio(@, chunk) EXCEPT
                  !.finalChunkDue = IF svc[s].mediaRecorder = "recording" THEN @ ELSE FALSE,
                  !.firstNonEmpty = IF @ = 0 /\ chunk.size > 0
                                      THEN svc[s].chunksEmitted + 1 ELSE @]]
  /\ UNCHANGED << config, shell, languageState, visualState, hookState, startCall, stopCalls, obs >>

\* what the transcription request comes back with
Responses == [ok : {FALSE}, text : {Empty, << "a" >>}]
             \cup [ok : {TRUE}, text : Transcripts \cup {Empty, << " " >>}]

Accepts_IgnoresStatus(v, response) ==
  /\ Trim(response.text) # Empty
  /\ response.text \notin v.processedTranscriptions

\* tryOpenAITranscription: a failed request, or a transcript that is blank or
\* already processed, is dropped
Accepts(v, response) ==
  /\ response.ok
  /\ Trim(response.text) # Empty
  /\ response.text \notin v.processedTranscriptions

\* tryOpenAITranscription after the response: the backend's own state
ResponseState(v, response) ==
  IF Accepts(v, response)
    THEN [v EXCEPT !.processedTranscriptions = @ \cup {response.text},
                   !.finalTranscription = response.text,
                   !.callbacks = Append(@, response.text)]
    ELSE v

ResponseCalls_Final(v, response) ==
  IF Accepts(v, response) THEN << << response.text, TRUE >> >> ELSE << >>

\* tryOpenAITranscription after the response: the callback invocations
ResponseCalls(v, response) ==
  IF Accepts(v, response) THEN << << response.text, FALSE >> >> ELSE << >>

\* the fetch settles: a network failure or a non-2xx status (ok = FALSE), or a body
FetchSettles(s, response) ==
  /\ svc[s].inflight > 0
  /\ svc' = [svc EXCEPT ![s] =
               [ResponseState(@, response) EXCEPT
                  !.inflight = @ - 1,
                  !.failedRequests = IF response.ok THEN @ ELSE @ + 1]]
  /\ Deliver(s, RunCalls(HookText, ResponseCalls(svc[s], response)),
             ResponseCalls(svc[s], response))
  /\ HookUnchanged
  /\ UNCHANGED << config, languageState, visualState, startCall, stopCalls >>

\* ------------------------------------------------------ specifications
Modes(version) == IF version = "A" THEN {"full", "delta"} ELSE {"full", "delta", "segment"}
Baselines == { Empty, << "a", " " >> }

NoObservation ==
  [ cancelled |-> {}, late |-> FALSE, kept |-> Empty, pending |-> Empty,
    extending |-> TRUE, lastText |-> Empty ]

\* the state after useVoiceTranscription's first render; `visualization`
\* tells whether the consumer gave options.onVisualizationUpdate
HookStartWith(visualization, consumer) ==
  /\ onVisualizationUpdate = visualization
  /\ frames = {}
  /\ animationFrameRef = NoFrame
  /\ mounted = TRUE
  /\ shell = consumer
  /\ isRecording = FALSE
  /\ transcription = Empty
  /\ interimTranscription = Empty
  /\ error = NoError
  /\ permissionDenied = FALSE
  /\ voiceServiceRef = NoService
  /\ isCancelledRef = FALSE
  /\ processedRef = Empty
  /\ transcriptionHistoryRef = Empty
  /\ startCall = [k \in Services |-> NotCalled]
  /\ stopCalls = [k \in Services |-> 0]
  /\ svc = [k \in Services |-> NoInstance]
  /\ obs = NoObservation
  /\ language = "auto"
  /\ shown = Lookup("auto")

\* the same for a consumer other than TextareaWithVoice
HookStart(visualization) == HookStartWith(visualization, NoShell)

\* a consumer without visualization
HookInit == HookStart(FALSE)

\* One result carrying the transcript "a", interim or final.
SimpleResults == { r \in ResultLists : Len(r) = 1 /\ r[1].transcript = << "a" >> }

\* the end event of a recognizer that was asked to stop
StoppedEnd(s) == svc[s].recognition = "stopping" /\ NativeEnd(s)

\* the recognizer of a recording session ends by itself
NaturalEnd(s) == svc[s].recognition = "running" /\ NativeEnd(s)

\* the end event that follows an error event
ErrorEnd(s) == svc[s].recognition \in {"errored", "aborted"} /\ NativeEnd(s)

HookNext ==
  \/ \E k \in Services : StartRecording(k)
  \/ \E k \in Services : StartAfterOldStop(k)
  \/ \E k \in Services : MicGranted(k)
  \/ \E k \in Services : MicRefused(k)
  \/ \E cancelled \in BOOLEAN : StopRecording(cancelled)
  \/ \E s \in Services : StopAfterAwait(s)
  \/ \E s \in Services : AudioContextClosed(s)

\* Spec: the hook's calls in every interleaving with the platform, where the
\* platform has the native recognizer or no backend at all; recognizers
\* deliver results and end when stopped.
Init ==
  /\ hookVersion = "A"
  /\ emitMode = "full"
  /\ baselineText = Empty
  /\ hasSpeechRecognition \in BOOLEAN
  /\ hasApiKey = FALSE
  /\ HookInit

Next ==
  \/ HookNext
  \/ \E s \in Services, results \in SimpleResults : NativeResult(s, results)
  \/ \E s \in Services : StoppedEnd(s)

Spec == Init /\ [][Next]_vars

\* SpecCloud: one session of the cloud backend under the hook, with every
\* interleaving of chunks, responses and the hook's stop.
InitCloud ==
  /\ hookVersion = "A"
  /\ emitMode = "full"
  /\ baselineText = Empty
  /\ hasSpeechRecognition = FALSE
  /\ hasApiKey = TRUE
  /\ HookInit

NextCloud ==
  \/ StartRecording(1)
  \/ MicGranted(1)
  \/ MicRefused(1)
  \/ \E cancelled \in BOOLEAN : StopRecording(cancelled)
  \/ StopAfterAwait(1)
  \/ AudioContextClosed(1)
  \/ \E chunk \in Chunks : DataAvailable(1, chunk)
  \/ \E response \in Responses : FetchSettles(1, response)

SpecCloud == InitCloud /\ [][NextCloud]_vars

\* SpecRestart: one on-device session with every recognizer event.
InitRestart ==
  /\ hookVersion = "A"
  /\ emitMode = "full"
  /\ baselineText = Empty
  /\ hasSpeechRecognition = TRUE
  /\ hasApiKey = FALSE
  /\ HookInit

NextRestart ==
  \/ StartRecording(1)
  \/ MicGranted(1)
  \/ MicRefused(1)
  \/ \E cancelled \in BOOLEAN : StopRecording(cancelled)
  \/ StopAfterAwait(1)
  \/ AudioContextClosed(1)
  \/ \E results \in SimpleResults : NativeResult(1, results)
  \/ \E e \in NativeErrors \cup {"not-allowed"} : NativeError(1, e)
  \/ NaturalEnd(1)
  \/ StoppedEnd(1)
  \/ ErrorEnd(1)
  \/ \E state \in OldStates : OldEnd(1, state)
  \/ \E cause \in Causes : TimerFire(1, cause)

SpecRestart == InitRestart /\ [][NextRestart]_vars

\* SpecRestartFair: the session's recognizers ending, failing and being
\* replaced, where a timer that was set does fire.
NextEnd ==
  \/ StartRecording(1)
  \/ MicGranted(1)
  \/ \E cancelled \in BOOLEAN : StopRecording(cancelled)
  \/ StopAfterAwait(1)
  \/ AudioContextClosed(1)
  \/ \E e \in NativeErrors : NativeError(1, e)
  \/ NaturalEnd(1)
  \/ StoppedEnd(1)
  \/ ErrorEnd(1)
  \/ \E state \in OldStates : OldEnd(1, state)
  \/ \E cause \in Causes : TimerFire(1, cause)

SpecRestartFair ==
  InitRestart /\ [][NextEnd]_vars /\ \A cause \in Causes : WF_vars(TimerFire(1, cause))

\* SpecText: one on-device session in every emission mode of both versions
\* of the hook, with every result event.
InitText ==
  /\ hookVersion \in {"A", "B"}
  /\ emitMode \in Modes(hookVersion)
  /\ baselineText \in Baselines
  /\ hasSpeechRecognition = TRUE
  /\ hasApiKey = FALSE
  /\ HookInit

NextText ==
  \/ StartRecording(1)
  \/ MicGranted(1)
  \/ \E results \in ResultLists : NativeResult(1, results)

SpecText == InitText /\ [][NextText]_vars

\* SpecLanguage: one session on every platform, with the language changed
\* before, during and after it.
Languages == { "auto", "de", "xx" }

InitLanguage ==
  /\ hookVersion = "A"
  /\ emitMode = "full"
  /\ baselineText = Empty
  /\ hasSpeechRecognition \in BOOLEAN
  /\ hasApiKey \in BOOLEAN
  /\ HookInit

NextLanguage ==
  \/ StartRecording(1)
  \/ MicGranted(1)
  \/ MicRefused(1)
  \/ \E cancelled \in BOOLEAN : StopRecording(cancelled)
  \/ StopAfterAwait(1)
  \/ AudioContextClosed(1)
  \/ \E newLanguage \in Languages : SetLanguage(newLanguage)
  \/ \E results \in SimpleResults : NativeResult(1, results)
  \/ NaturalEnd(1)
  \/ TimerFire(1, "end")

SpecLanguage == InitLanguage /\ [][NextLanguage]_vars

\* SpecCatalogue: the language selector, looking codes up and choosing them.
InitCatalogue ==
  /\ hookVersion = "A"
  /\ emitMode = "full"
  /\ baselineText = Empty
  /\ hasSpeechRecognition = TRUE
  /\ hasApiKey = FALSE
  /\ HookInit

NextCatalogue ==
  \/ \E languageCode \in Codes : ShowLanguage(languageCode)
  \/ \E newLanguage \in Codes : SetLanguage(newLanguage)

SpecCatalogue == InitCatalogue /\ [][NextCatalogue]_vars

\* SpecSessions: successive sessions in delta mode, with both versions of the
\* hook, with and without a baseline.
InitSessions ==
  /\ hookVersion \in {"A", "B"}
  /\ emitMode = "delta"
  /\ baselineText \in Baselines
  /\ hasSpeechRecognition = TRUE
  /\ hasApiKey = FALSE
  /\ HookInit

\* One final result carrying the transcript "a".
FinalResults == { r \in SimpleResults : r[1].isFinal }

NextSessions ==
  \/ \E k \in Services : StartRecording(k)
  \/ \E k \in Services : StartAfterOldStop(k)
  \/ \E k \in Services : MicGranted(k)
  \/ \E cancelled \in BOOLEAN : StopRecording(cancelled)
  \/ \E s \in Services : StopAfterAwait(s)
  \/ \E s \in Services : AudioContextClosed(s)
  \/ \E s \in Services, results \in FinalResults : NativeResult(s, results)

SpecSessions == InitSessions /\ [][NextSessions]_vars

\* SpecStopFault: Spec with a backend whose stopRecording may reject.
NextStopFault ==
  \/ Next
  \/ \E cancelled \in BOOLEAN : StopRecordingFails(cancelled)

SpecStopFault == Init /\ [][NextStopFault]_vars

\* ---------------------------------------------------------------- claims
Live(s) ==
  svc[s].isCurrentlyRecording \/ svc[s].audioStream \/ svc[s].recognition = "running"
  \/ svc[s].mediaRecorder = "recording"

\* C1: once stopRecording(true) was called on a session, no
\* onTranscriptionUpdate is made for an event of that session's backend,
\* whatever startRecording call follows.
C1_NoUpdateAfterCancel == ~obs.late

\* C8: at every moment at most one backend instance is live (marked
\* recording, holding a microphone stream or running a native recognizer).
C8_AtMostOneLive == Cardinality({ s \in Services : Live(s) }) <= 1

\* C6: when a startRecording call during which microphone access was refused
\* returns, permissionDenied is true, isRecording is false and onError was
\* called exactly once, with 'Microphone permission denied'.
C6_RefusalReported ==
  \A k \in Services :
    (startCall[k].pc = "done" /\ startCall[k].refused) =>
      /\ startCall[k].returned[1].permissionDenied
      /\ ~startCall[k].returned[1].isRecording
      /\ startCall[k].onError = << "Microphone permission denied" >>

\* C2: within one on-device session at most maxRestarts recognizers are
\* created by restarts, counting the restarts still scheduled; once they are
\* used up no error or end event creates another one.
C2_RestartCap ==
  \A s \in Services :
    /\ svc[s].restartCount <= maxRestarts
    /\ svc[s].freshCount + BagSize(svc[s].timers) <= maxRestarts

\* the session used all its restarts and its last recognizer ended: it is
\* still marked recording, and recognition has stopped
C2_Witness ==
  /\ svc[1].isCurrentlyRecording
  /\ svc[1].freshCount = maxRestarts
  /\ svc[1].recognition = "ended"
  /\ BagSize(svc[1].timers) = 0

RECURSIVE Count(_, _)
Count(seq, x) ==
  IF seq = << >> THEN 0
  ELSE (IF Head(seq) = x THEN 1 ELSE 0) + Count(Tail(seq), x)

\* C5: within one cloud-backend session each distinct transcript string
\* invokes the transcription callback at most once.
C5_EachTranscriptOnce ==
  \A s \in Services : \A t \in Transcripts : Count(svc[s].callbacks, t) <= 1

\* a session whose first chunk was transcribed and reported, and which has
\* recorded a further chunk since
C5_Witness ==
  \E s \in Services :
    /\ svc[s].kind = "openai"
    /\ Len(svc[s].callbacks) = 1
    /\ svc[s].chunkCounter >= 2
    /\ svc[s].inflight = 0

\* C3: in delta mode, when every text the backend reports strictly extends
\* the one before, a consumer that appends the final deltas and overwrites
\* its pending text with the interim deltas holds, after a final event,
\* exactly the backend's accumulated text: as its kept text, or as its kept
\* text followed by the pending text.
C3_DeltaReconstructs ==
  ( /\ hookVersion = "A"
    /\ emitMode = "delta"
    /\ baselineText = Empty
    /\ obs.extending
    /\ svc[1].fullTranscript # Empty
    /\ obs.lastText = svc[1].fullTranscript )
  => svc[1].fullTranscript \in { obs.kept, obs.kept \o obs.pending }

RECURSIVE Concat(_)
Concat(segments) ==
  IF segments = << >> THEN Empty ELSE Head(segments) \o Concat(Tail(segments))

RECURSIVE SpaceJoin(_)
SpaceJoin(segments) ==
  IF segments = << >> THEN Empty
  ELSE IF Len(segments) = 1 THEN Head(segments)
  ELSE LET rest == SpaceJoin(Tail(segments))
       IN  IF EndsWithSpace(Head(segments)) \/ StartsWithSpace(rest)
             THEN Head(segments) \o rest
             ELSE Head(segments) \o << " " >> \o rest

\* C4: in full mode `transcription` is the concatenation of all the segments
\* finalized so far in the session, joined by a single space where needed.
C4_FullIsConcatenation ==
  (emitMode = "full" /\ startCall[1].pc = "done") =>
    transcription \in { Concat(svc[1].finalized), SpaceJoin(svc[1].finalized) }

\* C7: an interim event of the backend sets interimTranscription to the
\* interim text and leaves transcription alone; a final event sets
\* transcription to the backend's accumulated final text and clears
\* interimTranscription.
C7_InterimAndFinalSeparate ==
  [][\A results \in ResultLists :
       NativeResult(1, results) =>
         LET interim == Collect(results, FALSE)
             final   == Collect(results, TRUE)
         IN  IF final # Empty
               THEN /\ transcription' = svc[1].fullTranscript \o final
                    /\ interimTranscription' = Empty
               ELSE /\ interimTranscription' = svc[1].fullTranscript \o interim
                    /\ transcription' = transcription]_vars

\* C9: while the session is recording and has restarts left, a natural end
\* of recognition is eventually followed by a fresh recognizer, constructed
\* and started (unless the session is stopped first).
C9_EndLeadsToFresh ==
  \A n \in 0 .. maxRestarts :
    (svc[1].isCurrentlyRecording /\ svc[1].timers["end"] > 0 /\ svc[1].freshCount = n)
      ~> (~svc[1].isCurrentlyRecording
          \/ (svc[1].freshCount > n /\ svc[1].recognition \in {"running", "refused"})
          \/ svc[1].freshCount > n + 1)

\* one natural end, one restart: the session runs its second recognizer
C9_Witness ==
  /\ svc[1].isCurrentlyRecording
  /\ svc[1].restartCount = 1
  /\ svc[1].freshCount = 1
  /\ svc[1].recognition = "running"
  /\ svc[1].old = NoOld

\* C10: a recognizer that reported the 'aborted' error never causes a
\* fresh recognizer to be constructed or started.
C10_AbortNeverRestarts ==
  [][~(TimerFire(1, "end-after-abort") /\ svc'[1].freshCount > svc[1].freshCount)]_vars

\* C14: createVoiceInputService returns the on-device backend whenever the
\* platform has a speech-recognition constructor, else the cloud backend when
\* a credential is configured, else it fails (and the start is reported as
\* failed); a returned backend has the requested language.
C14_BackendSelection ==
  \A k \in Services :
    startCall[k].created # << >> =>
      LET made == startCall[k].created[1]
      IN  /\ hasSpeechRecognition => made.kind = "browser"
          /\ (~hasSpeechRecognition /\ hasApiKey) => made.kind = "openai"
          /\ (~hasSpeechRecognition /\ ~hasApiKey) =>
               /\ made.kind = "none"
               /\ startCall[k].onError = << "Failed to start recording" >>
          /\ made.kind # "none" => made.language = startCall[k].language

\* both a recognizer and a credential: the on-device backend, in the
\* language chosen before the call
C14_Witness ==
  /\ hasSpeechRecognition /\ hasApiKey
  /\ startCall[1].created # << >>
  /\ startCall[1].created[1] = [kind |-> "browser", language |-> "de"]

\* C17: setLanguage with a backend held updates that backend's language in
\* place, getLanguage returns the new code, and nothing else of the backend
\* or of the hook changes; without a backend only the hook's language
\* changes, and the backend the next startRecording creates has it.
C17_LanguageInPlace ==
  [][ /\ \A newLanguage \in Languages :
           SetLanguage(newLanguage) =>
             /\ UNCHANGED << hookState, startCall, stopCalls, obs >>
             /\ language' = newLanguage
             /\ IF voiceServiceRef # NoService
                  THEN /\ svc' = [svc EXCEPT ![voiceServiceRef].language = newLanguage]
                       /\ newLanguage # "" => GetLanguage' = newLanguage
                  ELSE svc' = svc
      /\ StartRecording(1) =>
           (svc'[1].kind # "none" => ServiceGetLanguage(svc'[1]) = language) ]_vars

\* a recording session that has text and used a restart, switched from
\* "auto" to "de"
C17_Witness ==
  /\ isRecording
  /\ svc[1].isCurrentlyRecording
  /\ svc[1].recognition = "running"
  /\ svc[1].restartCount > 0
  /\ svc[1].fullTranscript # Empty
  /\ startCall[1].language = "auto"
  /\ ServiceGetLanguage(svc[1]) = "de"

AutoEntry == CHOOSE l \in { VOICE_LANGUAGES[i] : i \in DOMAIN VOICE_LANGUAGES } : l.code = "auto"

\* C18: for a code of the table the lookup gives that entry's flag and name;
\* for any other code it gives those of the auto-detect entry.
C18_LookupTotal ==
  LET entries == { VOICE_LANGUAGES[i] : i \in DOMAIN VOICE_LANGUAGES }
      entry == IF \E l \in entries : l.code = shown.code
                 THEN CHOOSE l \in entries : l.code = shown.code
                 ELSE AutoEntry
  IN  /\ shown.display = << entry.flag, " ", entry.name >>
      /\ shown.flag = entry.flag

\* a code that is not in the table was looked up
C18_Witness ==
  /\ shown.code = "xx"
  /\ shown.flag = AutoEntry.flag

\* C16: startRecording empties transcription and interimTranscription and
\* sets the last-reported text of delta mode to the trimmed baseline, or to
\* the empty text when there is no baseline.
C16_StartResetsBuffers ==
  [][\A k \in Services :
       StartRecording(k) =>
         /\ transcription' = Empty
         /\ interimTranscription' = Empty
         /\ processedRef' = Trim(baselineText)]_vars

\* C11: after a failure path the hook is stopped: here, when the restart cap
\* is exhausted and the last recognizer has ended, isRecording is false.
C11_FailureLeavesStopped ==
  \A s \in Services :
    ( /\ svc[s].kind = "browser"
      /\ svc[s].isCurrentlyRecording
      /\ svc[s].restartCount = maxRestarts
      /\ svc[s].recognition = "ended"
      /\ BagSize(svc[s].timers) = 0
      /\ svc[s].old = NoOld )
    => ~isRecording

\* C12: when the backend's stop fails, the stop-failure message is reported
\* and cleanup still happens: isRecording is false and the backend was reset.
C12_StopFaultCleansUp ==
  [][\A cancelled \in BOOLEAN :
       StopRecordingFails(cancelled) =>
         /\ error' = "Failed to stop recording"
         /\ svc'[voiceServiceRef] = ServiceReset(svc[voiceServiceRef])
         /\ ~isRecording']_vars

\* C13: an error, an end or a restart timer of the on-device backend changes
\* nothing the consumer observes, and calls neither onError nor
\* onTranscriptionUpdate.
C13_RestartInvisible ==
  [][( \/ \E e \in NativeErrors \cup {"not-allowed"} : NativeError(1, e)
       \/ NativeEnd(1)
       \/ \E state \in OldStates : OldEnd(1, state)
       \/ \E cause \in Causes : TimerFire(1, cause) )
     => UNCHANGED << hookState, languageState, startCall, stopCalls, obs >>]_vars

\* a session showing interim text, after two restarts (one after an error
\* and one after the end that followed), still recording
C13_Witness ==
  /\ isRecording
  /\ interimTranscription # Empty
  /\ svc[1].isCurrentlyRecording
  /\ svc[1].freshCount >= 2
  /\ svc[1].recognition = "running"

\* SpecOrder: one on-device session of either hook in every emit mode, with
\* result events of several results, before and after the hook's stop or cancel.
InitOrder ==
  /\ hookVersion \in {"A", "B"}
  /\ emitMode \in Modes(hookVersion)
  /\ baselineText = Empty
  /\ hasSpeechRecognition = TRUE
  /\ hasApiKey = FALSE
  /\ HookInit

\* result events whose interim results read "a" and whose final ones " b"
OrderResults ==
  { r \in ResultLists :
      \A i \in 1 .. Len(r) :
        r[i].transcript = IF r[i].isFinal THEN << " ", "b" >> ELSE << "a" >> }

NextOrder ==
  \/ StartRecording(1)
  \/ MicGranted(1)
  \/ \E cancelled \in BOOLEAN : StopRecording(cancelled)
  \/ \E results \in OrderResults : NativeResult(1, results)
  \/ StoppedEnd(1)

SpecOrder == InitOrder /\ [][NextOrder]_vars

EndsWith(t, p) == Len(p) <= Len(t) /\ SubSeq(t, Len(t) - Len(p) + 1, Len(t)) = p

\* update is what the callback made of call: same isFinal, and the text is
\* the reported text, its delta, or the reported text behind the history
ForwardOf(update, call) ==
  /\ update[2] = call[2]
  /\ EndsWith(update[1], call[1]) \/ EndsWith(call[1], update[1])

RECURSIVE InOrder(_, _)
\* every update is the forward of a call of its own, in the calls' order
InOrder(emitted, calls) ==
  IF emitted = << >> THEN TRUE
  ELSE IF calls = << >> THEN FALSE
  ELSE \/ ForwardOf(Head(emitted), Head(calls)) /\ InOrder(Tail(emitted), Tail(calls))
       \/ InOrder(emitted, Tail(calls))

\* C15: whenever the recognizer can deliver a result event, the
\* onTranscriptionUpdate invocations the event causes are the backend's
\* reports of that event in their order, some possibly dropped, none repeated
\* or swapped; while the cancelled flag is set none is forwarded, and without
\* the flag a report is dropped only in delta mode.
C15_OrderPreserved ==
  \A results \in OrderResults :
    (svc[1].recognition \in {"running", "stopping"} \/ svc[1].old["stopping"] > 0) =>
      LET calls   == ResultCalls(svc[1], results)
          emitted == RunCalls(HookText, calls).emitted
      IN  /\ InOrder(emitted, calls)
          /\ isCancelledRef => emitted = << >>
          /\ (~isCancelledRef /\ emitMode # "delta") => Len(emitted) = Len(calls)

\* a cancelled session whose recognizer flushed a final result that was dropped
C15_Witness ==
  /\ isCancelledRef
  /\ svc[1].finalized # << >>
  /\ transcription = Empty
  /\ transcriptionHistoryRef = Empty

\* C19: whenever the recognizer can deliver a result event, the event
\* appends its finalized text to fullTranscript; if it has interim text the
\* callback first receives fullTranscript + interim, not final, and if it has
\* finalized text the callback then receives the extended fullTranscript as
\* final; and during a recording session fullTranscript is exactly the
\* finalized results appended in turn: nothing else has changed it.
C19_ResultAccumulates ==
  /\ svc[1].isCurrentlyRecording => svc[1].fullTranscript = Concat(svc[1].finalized)
  /\ \A results \in ResultLists :
       (svc[1].recognition \in {"running", "stopping"} \/ svc[1].old["stopping"] > 0) =>
         LET interimTranscript == Collect(results, FALSE)
             finalTranscript   == Collect(results, TRUE)
             before            == svc[1].fullTranscript
             calls             == ResultCalls(svc[1], results)
             h                 == RunCalls(HookText, calls)
         IN  /\ ResultState(svc[1], results).fullTranscript = before \o finalTranscript
             /\ Len(calls) = (IF interimTranscript # Empty THEN 1 ELSE 0)
                             + (IF finalTranscript # Empty THEN 1 ELSE 0)
             /\ interimTranscript # Empty =>
                   calls[1] = << before \o interimTranscript, FALSE >>
             /\ finalTranscript # Empty =>
                   calls[Len(calls)] = << before \o finalTranscript, TRUE >>
             /\ (hookVersion = "A" /\ ~isCancelledRef /\ finalTranscript # Empty) =>
                   /\ h.transcription = before \o finalTranscript
                   /\ h.interimTranscription = Empty
             /\ (hookVersion = "A" /\ ~isCancelledRef /\ finalTranscript = Empty) =>
                   /\ h.interimTranscription = before \o interimTranscript
                   /\ h.transcription = transcription

\* an interim result reported behind two finalized ones
C19_Witness ==
  /\ hookVersion = "A"
  /\ svc[1].finalized = << << "a" >>, << " ", "b" >> >>
  /\ transcription = << "a", " ", "b" >>
  /\ interimTranscription = << "a", " ", "b", "a" >>

\* SpecFresh: one on-device session whose recognizers end or fail and are
\* replaced, while results arrive and the consumer changes the language.
FreshLanguages == { "auto", "de" }

NextFresh ==
  \/ StartRecording(1)
  \/ MicGranted(1)
  \/ \E newLanguage \in FreshLanguages : SetLanguage(newLanguage)
  \/ \E results \in SimpleResults : NativeResult(1, results)
  \/ \E e \in NativeErrors : NativeError(1, e)
  \/ NaturalEnd(1)
  \/ ErrorEnd(1)
  \/ \E state \in OldStates : OldEnd(1, state)
  \/ \E cause \in Causes : TimerFire(1, cause)

SpecFresh == InitRestart /\ [][NextFresh]_vars

\* C20: a restart timer firing in a recording session replaces the
\* recognizer by a newly constructed, started one (the old one is stopped and
\* no longer the current one) and changes nothing else of the backend:
\* fullTranscript, the language and the restart counter stay, and nothing of
\* the hook changes; a final result after the restart extends fullTranscript
\* and the consumer's transcription.
C20_RestartKeepsText ==
  [][/\ \A cause \in Causes :
          (TimerFire(1, cause) /\ svc[1].isCurrentlyRecording) =>
            /\ svc'[1].fullTranscript = svc[1].fullTranscript
            /\ svc'[1].language = svc[1].language
            /\ svc'[1].restartCount = svc[1].restartCount
            /\ svc'[1].isCurrentlyRecording
            /\ svc'[1].recognition = "running"
            /\ svc'[1].freshCount = svc[1].freshCount + 1
            /\ svc[1].recognition = "running" =>
                  svc'[1].old["stopping"] = svc[1].old["stopping"] + 1
            /\ UNCHANGED << hookState, languageState, obs >>
     /\ \A results \in SimpleResults :
          (NativeResult(1, results) /\ svc[1].finalsAtRestart # NoRestart) =>
            /\ svc'[1].fullTranscript = svc[1].fullTranscript \o Collect(results, TRUE)
            /\ (results[1].isFinal /\ ~isCancelledRef) =>
                  /\ transcription' = svc'[1].fullTranscript
                  /\ StartsWith(transcription', transcription)]_vars

\* a recording session whose language was switched to "de", restarted after
\* its first finalized result and given a second one since
C20_Witness ==
  /\ svc[1].isCurrentlyRecording
  /\ svc[1].finalsAtRestart = 1
  /\ ServiceGetLanguage(svc[1]) = "de"
  /\ svc[1].fullTranscript = << "a", "a" >>
  /\ transcription = << "a", "a" >>

RECURSIVE DeltaReports(_, _)
\* each report (T, isFinal) in turn, made to the callback in state h: the
\* update is T without its prefix P = processedRef when T starts with P and
\* all of T otherwise, none when that is empty, and processedRef becomes T
DeltaReports(h, calls) ==
  IF calls = << >> THEN TRUE
  ELSE LET T     == Head(calls)[1]
           P     == h.processedRef
           after == TranscriptionCallback(h, T, Head(calls)[2])
           rest  == IF StartsWith(T, P) THEN SubSeq(T, Len(P) + 1, Len(T)) ELSE T
       IN  /\ after.processedRef = T
           /\ after.emitted = IF rest # Empty
                                THEN Append(h.emitted, << rest, Head(calls)[2] >>)
                                ELSE h.emitted
           /\ DeltaReports(after, Tail(calls))

\* C21: with useVoiceTranscription.ts in delta mode, every report T a result
\* event can make is forwarded as T without the last-reported text when T
\* starts with it and as all of T otherwise, an empty remainder makes no
\* onTranscriptionUpdate call, and the last-reported text becomes T after
\* an interim report as after a final one.
C21_DeltaByPrefix ==
  (hookVersion = "A" /\ emitMode = "delta" /\ ~isCancelledRef) =>
    \A results \in ResultLists :
      (svc[1].recognition \in {"running", "stopping"} \/ svc[1].old["stopping"] > 0) =>
        DeltaReports(HookText, ResultCalls(svc[1], results))

\* a session whose interim text "a b" was followed by the final text "a":
\* the final does not start with the last-reported text and was reported whole
C21_Witness ==
  /\ hookVersion = "A" /\ emitMode = "delta" /\ baselineText = Empty
  /\ obs.pending = << "a", " ", "b" >>
  /\ obs.kept = << "a" >>
  /\ processedRef = << "a" >>
  /\ svc[1].fullTranscript = << "a" >>

\* the update the callback in state h makes for the report (text, isFinal)
UpdateFor(h, text, isFinal) ==
  LET emitted == TranscriptionCallback([h EXCEPT !.emitted = << >>], text, isFinal).emitted
  IN  emitted

RECURSIVE SegmentReports(_, _)
\* each report (text, isFinal) in turn, made to the callback in state h:
\* exactly one update, the text behind one space when the history is not
\* empty, does not end with a space and the text does not start with one;
\* a final report appends that to the history, an interim one leaves the
\* history, and with it the update of any later report, as it was
SegmentReports(h, calls) ==
  IF calls = << >> THEN TRUE
  ELSE LET text    == Head(calls)[1]
           isFinal == Head(calls)[2]
           history == h.transcriptionHistoryRef
           joined  == IF /\ history # Empty
                         /\ history[Len(history)] # " "
                         /\ (text = Empty \/ text[1] # " ")
                        THEN << " " >> \o text ELSE text
           after   == TranscriptionCallback(h, text, isFinal)
       IN  /\ after.emitted = Append(h.emitted, << joined, isFinal >>)
           /\ after.transcriptionHistoryRef = IF isFinal THEN history \o joined ELSE history
           /\ ~isFinal =>
                 \A later \in Transcripts, laterFinal \in BOOLEAN :
                   UpdateFor(after, later, laterFinal) = UpdateFor(h, later, laterFinal)
           /\ SegmentReports(after, Tail(calls))

InitVisual ==
  /\ hookVersion = "A"
  /\ emitMode = "full"
  /\ baselineText = Empty
  /\ hasSpeechRecognition \in BOOLEAN
  /\ hasApiKey = TRUE
  /\ HookStart(TRUE)

\* the consumer calls the hook's functions only while it is mounted
MountedStart(k) == mounted /\ StartRecording(k)
MountedStop(cancelled) == mounted /\ StopRecording(cancelled)

NextVisual ==
  \/ \E k \in Services : MountedStart(k)
  \/ \E k \in Services : StartAfterOldStop(k)
  \/ \E k \in Services : MicGranted(k)
  \/ \E k \in Services : MicRefused(k)
  \/ \E cancelled \in BOOLEAN : MountedStop(cancelled)
  \/ \E s \in Services : StopAfterAwait(s)
  \/ \E s \in Services : AudioContextClosed(s)
  \/ \E j \in Services : Tick(j)
  \/ Unmount

SpecVisual == InitVisual /\ [][NextVisual]_vars

\* C23: stopRecording takes effect only when a backend is held and
\* isRecording is true (otherwise it returns at once: nothing is called and
\* nothing changes); then it sets the cancellation flag as given and stops
\* the backend held, and when the call completes isRecording is false, the
\* frame in animationFrameRef is cancelled and the ref cleared, and the
\* backend held is reset; transcription, interimTranscription and error
\* stay as they were.
C23_StopOnlyWhenRecording ==
  [][/\ \A cancelled \in BOOLEAN :
          StopRecording(cancelled) =>
            /\ voiceServiceRef # NoService /\ isRecording
            /\ isCancelledRef' = cancelled
            /\ ~svc'[voiceServiceRef].isCurrentlyRecording
            /\ ~svc'[voiceServiceRef].audioStream
            /\ svc'[voiceServiceRef].audioContext \notin {"running"}
            /\ svc'[voiceServiceRef].recognition # "running"
            /\ svc'[voiceServiceRef].mediaRecorder # "recording"
            /\ UNCHANGED << transcription, interimTranscription, error >>
     /\ \A cancelled \in BOOLEAN, s \in Services :
          (StopAfterAwait(s) \/ (StopRecording(cancelled) /\ stopCalls' = stopCalls)) =>
            /\ ~isRecording'
            /\ animationFrameRef' = NoFrame
            /\ animationFrameRef \notin frames'
            /\ svc'[voiceServiceRef].fullTranscript = Empty
            /\ svc'[voiceServiceRef].finalTranscription = Empty
            /\ ~svc'[voiceServiceRef].isCurrentlyRecording
            /\ UNCHANGED << transcription, interimTranscription, error >>]_vars

\* a session with visualization, stopped: the audio context is closed, no
\* frame is pending and the ref is cleared
C23_Witness ==
  /\ mounted /\ onVisualizationUpdate
  /\ startCall[1].pc = "done" /\ voiceServiceRef = 1
  /\ svc[1].audioContext = "closed"
  /\ ~isRecording
  /\ frames = {} /\ animationFrameRef = NoFrame

\* C28: at every moment at most one polling loop has an animation frame
\* pending, whatever startRecording and stopRecording calls were made.
C28_OnePollingLoop == Cardinality(frames) <= 1

\* C29: once the component is unmounted, the backend it held reports
\* not-recording and no polling frame is pending.
C29_UnmountReleases ==
  ~mounted =>
    /\ frames = {}
    /\ voiceServiceRef # NoService => ~svc[voiceServiceRef].isCurrentlyRecording

\* C30: a backend instance that a later startRecording call has replaced
\* (the later call's own backend was created) holds no microphone stream,
\* runs no native recognizer or recorder and has no open audio graph.
C30_ReplacedStaysReleased ==
  \A s \in Services, k \in Services :
    (s < k /\ svc[s].kind # "none" /\ svc[k].kind # "none") =>
      /\ ~svc[s].audioStream
      /\ svc[s].recognition # "running"
      /\ svc[s].mediaRecorder # "recording"
      /\ svc[s].audioContext # "running"

\* C24 as stated: one cloud session sends at most one transcription request,
\* and only for the first chunk the recorder emits in the session, after it
\* passed validation; no later chunk is submitted, whatever became of the first.
C24_FirstEmittedOnly ==
  \A s \in Services :
    /\ Len(svc[s].requests) <= 1
    /\ \A i \in 1..Len(svc[s].requests) :
         /\ svc[s].requests[i].index = 1
         /\ svc[s].requests[i].chunk.size >= MinChunkSize
         /\ svc[s].requests[i].chunk.knownType

\* C24, amended: one cloud session sends at most one transcription request,
\* and only for the first non-empty chunk the recorder emits in the session
\* (empty chunks are skipped and do not count), after it passed validation;
\* no later chunk is submitted, whatever became of the first non-empty one.
C24_FirstNonEmptyOnly ==
  \A s \in Services :
    /\ Len(svc[s].requests) <= 1
    /\ \A i \in 1..Len(svc[s].requests) :
         /\ svc[s].requests[i].index = svc[s].firstNonEmpty
         /\ svc[s].requests[i].chunk.size >= MinChunkSize
         /\ svc[s].requests[i].chunk.knownType

\* a session whose recorder emitted an empty chunk, then a valid one that was
\* submitted, then a further non-empty chunk that was not
C24_Witness ==
  \E s \in Services :
    /\ svc[s].kind = "openai"
    /\ Len(svc[s].requests) = 1
    /\ svc[s].requests[1].index = 2
    /\ svc[s].chunksEmitted >= 3
    /\ svc[s].chunkCounter >= 2

\* what a per-chunk failure must leave alone: the callback is not invoked,
\* the last transcript and the ledger of processed transcripts keep their
\* values, the session keeps recording (or not), and the hook sees nothing
ChunkFailureSilent(s) ==
  /\ svc'[s].callbacks = svc[s].callbacks
  /\ svc'[s].finalTranscription = svc[s].finalTranscription
  /\ svc'[s].processedTranscriptions = svc[s].processedTranscriptions
  /\ svc'[s].isCurrentlyRecording = svc[s].isCurrentlyRecording
  /\ svc'[s].mediaRecorder = svc[s].mediaRecorder
  /\ UNCHANGED << hookState, obs >>

\* C25: a per-chunk failure in the cloud backend (a chunk that is undersized
\* or of an unrecognized type, a request that fails on the network or comes
\* back with a non-success status) raises no error, does not invoke the
\* callback, leaves the last transcript and the processed-transcript ledger
\* unchanged, and the session stays recording.
C25_ChunkFailureSilent ==
  [][ /\ \A chunk \in Chunks :
           /\ DataAvailable(1, chunk)
           /\ chunk.size < MinChunkSize \/ ~chunk.knownType
           => ChunkFailureSilent(1)
      /\ \A response \in Responses :
           FetchSettles(1, response) /\ ~response.ok => ChunkFailureSilent(1) ]_vars

\* a session still recording, with nothing reported and no error, after the
\* one request made has failed and a further chunk was left unsubmitted
C25_Witness ==
  /\ svc[1].kind = "openai"
  /\ svc[1].isCurrentlyRecording
  /\ svc[1].mediaRecorder = "recording"
  /\ svc[1].chunkCounter >= 2
  /\ svc[1].failedRequests = 1
  /\ svc[1].callbacks = << >>
  /\ error = NoError

NextTeardown ==
  \/ StartRecording(1)
  \/ MicGranted(1)
  \/ MicRefused(1)
  \/ \E cancelled \in BOOLEAN : \E faults \in TeardownFaults :
       StopRecordingWith(cancelled, faults)
  \/ StopAfterAwait(1)
  \/ AudioContextClosed(1)
  \/ \E results \in SimpleResults : NativeResult(1, results)
  \/ NaturalEnd(1)
  \/ StoppedEnd(1)
  \/ TimerFire(1, "end")

SpecTeardown == InitRestart /\ [][NextTeardown]_vars

\* the on-device backend right after its teardown
TornDown(v) ==
  /\ ~v.isCurrentlyRecording
  /\ v.restartCount = 0
  /\ ~v.audioStream

C33_OneRestartPerFault ==
  [][ /\ svc[1].recognition = "errored" /\ NativeEnd(1) =>
           /\ svc'[1].restartCount = svc[1].restartCount
           /\ svc'[1].timers = svc[1].timers
      /\ \A state \in OldStates :
           OldEnd(1, state) =>
             /\ svc'[1].restartCount = svc[1].restartCount
             /\ svc'[1].timers = svc[1].timers ]_vars

\* whether a stopRecording call on the instance has returned
StopReturned(v) == v.stopped /\ ~AwaitsClose(v)

\* C34: once stopRecording has returned on a backend (which the hook never
\* starts again), no step makes it acquire a microphone stream or start a
\* native recognizer or a recorder, whether a restart timer was pending or its
\* startRecording was still awaiting microphone access when it was stopped.
C34_StoppedStaysStopped ==
  [][ \A s \in Services :
        StopReturned(svc[s]) =>
          /\ svc'[s].audioStream => svc[s].audioStream
          /\ svc'[s].recognition = "running" => svc[s].recognition = "running"
          /\ svc'[s].mediaRecorder = "recording" => svc[s].mediaRecorder = "recording" ]_vars

\* SpecDispose: one session of either backend with results, chunks and
\* responses, the animation ticks, and the component unmounting at any point.
NextDispose ==
  \/ MountedStart(1)
  \/ MicGranted(1)
  \/ MicRefused(1)
  \/ \E cancelled \in BOOLEAN : MountedStop(cancelled)
  \/ StopAfterAwait(1)
  \/ AudioContextClosed(1)
  \/ \E results \in SimpleResults : NativeResult(1, results)
  \/ StoppedEnd(1)
  \/ \E chunk \in Chunks : DataAvailable(1, chunk)
  \/ \E response \in Responses : FetchSettles(1, response)
  \/ Tick(1)
  \/ Unmount

SpecDispose == InitVisual /\ [][NextDispose]_vars

\* C35: after the unmount cleanup has run, no result event, no transcription
\* response and no animation tick makes the hook invoke onTranscriptionUpdate
\* or onVisualizationUpdate.
C35_SilentAfterUnmount ==
  [][ ~mounted =>
        /\ \A results \in SimpleResults :
             NativeResult(1, results) =>
               RunCalls(HookText, ResultCalls(svc[1], results)).emitted = << >>
        /\ \A response \in Responses :
             FetchSettles(1, response) =>
               RunCalls(HookText, ResponseCalls(svc[1], response)).emitted = << >>
        /\ Tick(1) => ~Polls(svc) ]_vars

\* a native recognizer that was started and still owes the platform's error
\* or end event
RecognizerActive(v) ==
  v.recognition \in { "running", "refused", "errored", "aborted", "stopping" }

\* C36: whenever the hook reports isRecording = true with no startRecording
\* or stopRecording call in flight, its on-device backend has a recognizer
\* that is started (or whose error or end event is still to come) or a restart
\* timer set: the hook does not go on reporting a recording whose recognizer
\* has stopped for good.
C36_RecordingMeansListening ==
  ( /\ isRecording
    /\ \A k \in Services : startCall[k].pc \in { "idle", "done" }
    /\ \A s \in Services : stopCalls[s] = 0
    /\ voiceServiceRef # NoService
    /\ svc[voiceServiceRef].kind = "browser" )
  => \/ RecognizerActive(svc[voiceServiceRef])
     \/ BagSize(svc[voiceServiceRef].timers) > 0

\* SpecStartFault: the hook's calls with either backend, where a backend's
\* startRecording may also throw after the microphone was granted.
NextStartFault ==
  \/ HookNext
  \/ \E k \in Services : StartThrows(k)

SpecStartFault == InitVisual /\ [][NextStartFault]_vars

\* C38: when a backend's startRecording fails (the microphone request is
\* rejected, the recorder cannot be constructed or started, the native
\* recognizer's start throws), then as the failure reaches the hook the
\* backend is not recording and holds no microphone stream and no open audio
\* graph.
C38_FailedStartHoldsNothing ==
  [][ \A k \in Services :
        (StartThrows(k) \/ (svc[k].kind = "openai" /\ MicRefused(k))) =>
          /\ ~svc'[k].isCurrentlyRecording
          /\ ~svc'[k].audioStream
          /\ svc'[k].audioContext # "running" ]_vars

\* SpecShell: TextareaWithVoice over the hook and the on-device backend: the
\* user starts and stops by the button, results arrive, and the field holds
\* some text with the caret or a selection in it when voice input begins.
MaxUpdates == 3    \* onTranscriptionUpdate calls the shell receives in a run

FieldTexts == { Empty, << "x" >> }

InitShell ==
  /\ hookVersion = "A"
  /\ emitMode = "full"
  /\ baselineText = Empty
  /\ hasSpeechRecognition = TRUE
  /\ hasApiKey = FALSE
  /\ \E mode \in { "replace", "append" } : \E text \in FieldTexts :
       \E start \in 0 .. Len(text) : \E end \in start .. Len(text) :
         HookStartWith(FALSE, [NoShell EXCEPT !.present = TRUE,
                                             !.transcriptionMode = mode,
                                             !.value = text,
                                             !.selectionStart = start,
                                             !.selectionEnd = end])

\* a result event; one result per event, interim or final
ShellResults == { r \in ResultLists : Len(r) = 1 }

\* the buttons: start is offered while isVoiceTranscribing is false, stop
\* while it is true; the user presses start once and waits for the session
HandleStartTranscription(k) ==
  /\ ~isRecording
  /\ \A j \in Services : startCall[j].pc \in { "idle", "done" }
  /\ StartRecording(k)
HandleStopTranscription == isRecording /\ StopRecording(FALSE)
ShellResult(s, results) == shell.updates < MaxUpdates /\ NativeResult(s, results)

NextShell ==
  \/ \E k \in Services : HandleStartTranscription(k)
  \/ \E k \in Services : MicGranted(k)
  \/ HandleStopTranscription
  \/ \E s \in Services : StopAfterAwait(s)
  \/ \E s \in Services : AudioContextClosed(s)
  \/ \E s \in Services : \E results \in ShellResults : ShellResult(s, results)

SpecShell == InitShell /\ [][NextShell]_vars

\* C31: after the interim updates and the final update of one utterance the
\* field holds what it held before the utterance with the final text
\* inserted once (at the caret or over the selection in replace mode, after a
\* joining space in append mode), and nothing of the interim text.
C31_InterimReplacedCleanly ==
  (shell.present /\ shell.settled) => shell.value = shell.expected

\* C32: once a finalized non-empty delta was applied while the session was
\* recording, and until the user stops, a force-cycle is scheduled.
C32_ForceCycleScheduled ==
  (shell.present /\ shell.cycleDue) => shell.restartTimeoutRef

\* C37: the first finalized text of a session is inserted in full, whatever
\* the last finalized text of the session before was.
C37_FirstFinalInFull == ~shell.lost

====
